---- MODULE Spec2Model ----
(***************************************************************************)
(* Model of src/game/net/core.py: NetManager (the Session) and             *)
(* NetManagerThread (its background task).  Two sessions are modelled: "A" *)
(* is constructed with as_server = True (listener), "B" with as_server =   *)
(* False (initiator) and dials A.  Consumer threads call the NetManager    *)
(* methods; every method and NetManagerThread.run are cut into the steps   *)
(* between which another thread can run.                                   *)
(***************************************************************************)
EXTENDS Integers, Sequences, FiniteSets, TLC

\* ---------------------------------------------------------------- bounds
MaxConnects == 3        \* connect() calls, both sessions together
MaxDisconnects == 1     \* disconnect() calls, both sessions together
MaxSends == 2           \* send() calls, both sessions together
MaxLen == 1             \* elements of an application value
MaxCodecLen == 4        \* elements of a value given to the codec alone
MaxCasts == 2           \* broadcast() calls, both processes together
MaxListens == 2         \* recv_broadcast() calls, both processes together

\* ------------------------------------------------------ program constants
HeaderSize == 4         \* self.client.recv(4) / struct.pack("i", ...)
Backlog == 3            \* self.server.listen(3)
MaxDatagram == 1024     \* s.recvfrom(1024)

\* bytes of the serialisation (pickle protocol opcodes)
PROTO == 128
BININT1 == 75
STOP == 46

Sessions == {"A", "B"}
Consumers == {1, 2}
Tasks == 1..MaxConnects
Elems == {1}

as_server(s) == s = "A"
Peer(s) == IF s = "A" THEN "B" ELSE "A"

RECURSIVE SeqsUpTo(_)
SeqsUpTo(n) ==
  IF n = 0 THEN {<<>>}
  ELSE LET P == SeqsUpTo(n - 1)
       IN P \cup {Append(q, e) : q \in {p \in P : Len(p) = n - 1}, e \in Elems}

\* the application values handed to send()
Values == SeqsUpTo(MaxLen)

\* ----------------------------------------------------------------- codec
\* pickle.dumps(data): protocol marker, one (opcode, byte) pair per element, STOP
Dumps(v) ==
  [i \in 1..(2 * Len(v) + 2) |->
     IF i = 1 THEN PROTO
     ELSE IF i = 2 * Len(v) + 2 THEN STOP
     ELSE IF i % 2 = 0 THEN BININT1
     ELSE v[(i - 1) \div 2]]

\* struct.pack("i", n): 4 bytes, native (little-endian) two's complement; n is a
\* len(), so 0 <= n < 2^31
Pack(n) ==
  <<n % 256, (n \div 256) % 256, (n \div 65536) % 256, (n \div 16777216) % 256>>

\* struct.unpack("i", b) raises struct.error unless len(b) = 4
UnpackOk(b) == Len(b) = HeaderSize

\* struct.unpack("i", b)[0] of a 4-byte buffer: the top byte carries the sign
Unpack(b) ==
  LET hi == IF b[4] >= 128 THEN b[4] - 256 ELSE b[4]
  IN 16777216 * hi + 65536 * b[3] + 256 * b[2] + b[1]

\* pickle.loads(b): the unpickler reads opcodes from the front and stops at the
\* first STOP; bytes after it are ignored.  <<FALSE, <<>>>> is a raised error
\* (truncated or malformed input).  Opcodes stand at the even positions; the
\* unpickler stops at the first that is not a complete (BININT1, byte) pair.
Loads(b) ==
  IF Len(b) = 0 \/ b[1] # PROTO THEN <<FALSE, <<>>>>
  ELSE LET Ends == {k \in 0..Len(b) :
                      \/ 2 * k + 3 > Len(b)
                      \/ b[2 * k + 2] # BININT1}
           n == CHOOSE k \in Ends : \A j \in Ends : k <= j
           p == 2 * n + 2
       IN IF p <= Len(b) /\ b[p] = STOP
          THEN <<TRUE, [i \in 1..n |-> b[2 * i + 1]]>>
          ELSE <<FALSE, <<>>>>

\* _pack_data with the header counting itself as well
pack_data_HeaderCountsItself(data) ==
  LET b_data == Dumps(data)
      b_length == Pack(Len(b_data) + HeaderSize)
  IN b_length \o b_data

\* NetManager._pack_data
pack_data(data) ==
  LET b_data == Dumps(data)
      b_length == Pack(Len(b_data))
  IN b_length \o b_data

\* ----------------------------------------------------------------- state
VARIABLES
  listen_thread,  \* NetManager._listen_thread: 0 (None) or the task it refers to
  stop_event,     \* NetManager._stop_event
  client,         \* NetManager.client: 0 (None) or the task whose socket it is
  data_queue,     \* NetManager.data_queue
  tpc,            \* position of each NetManagerThread in run()
  tlen,           \* run()'s local `length`
  texit,          \* how run() left establishment / the receive loop
  sock,           \* NetManagerThread.client socket: "none", "open", "closed"
  srv,            \* NetManagerThread.server socket: "none", "listening", "closed"
  conn,           \* the connection a client socket is an end of (0: none)
  backlog,        \* connections completed by the kernel, not yet accepted
  dropped,        \* connections reset because their listening socket went away
  rx,             \* rx[c][s]: bytes written to connection c, unread by end s
  cpc,            \* position of each consumer thread inside a NetManager method
  carg,           \* connect: the callback of the call; disconnect: client seen
  cdata,          \* send: the data argument
  cret,           \* outcome of the consumer's last call
  nconn, ndisc, nsend,   \* calls made so far (bounded)
  cbLog,          \* cbLog[s][k]: the arguments connect_callback k was invoked with
  sent,           \* values whose send() returned 0
  got,            \* values recv() has returned
  value,          \* codec: the value handed to _pack_data
  frame,          \* codec: the bytes _pack_data returned
  decoded,        \* codec: what the receive path makes of those bytes
  upc,            \* position of each process inside recv_broadcast
  ubound,         \* processes whose datagram socket is bound to the port
  ubuf,           \* ubuf[s]: datagrams <<bytes, sender>> queued at s's bound socket
  uret,           \* outcome of the process's last recv_broadcast
  casts,          \* the <<data, sender>> of every broadcast() made
  ncast, nlisten  \* calls made so far (bounded)

nmVars == <<listen_thread, stop_event, client, data_queue>>
thrVars == <<tpc, tlen, texit>>
osVars == <<sock, srv, conn, backlog, dropped, rx>>
conVars == <<cpc, carg, cdata, cret>>
budVars == <<nconn, ndisc, nsend>>
histVars == <<cbLog, sent, got>>
codecVars == <<value, frame, decoded>>
castVars == <<upc, ubound, ubuf, uret, casts, ncast, nlisten>>
vars == <<nmVars, thrVars, osVars, conVars, budVars, histVars, codecVars, castVars>>

\* no datagram socket exists, nothing has been broadcast
CastInit ==
  /\ upc = [s \in Sessions |-> "idle"]
  /\ ubound = {}
  /\ ubuf = [s \in Sessions |-> <<>>]
  /\ uret = [s \in Sessions |-> <<"none">>]
  /\ casts = <<>>
  /\ ncast = 0 /\ nlisten = 0

\* NetManager.__init__ (both sessions), no thread created yet
Init ==
  /\ listen_thread = [s \in Sessions |-> 0]
  /\ stop_event = [s \in Sessions |-> FALSE]
  /\ client = [s \in Sessions |-> 0]
  /\ data_queue = [s \in Sessions |-> <<>>]
  /\ tpc = [s \in Sessions |-> [t \in Tasks |-> "unborn"]]
  /\ tlen = [s \in Sessions |-> [t \in Tasks |-> 0]]
  /\ texit = [s \in Sessions |-> [t \in Tasks |-> "none"]]
  /\ sock = [s \in Sessions |-> [t \in Tasks |-> "none"]]
  /\ srv = [s \in Sessions |-> [t \in Tasks |-> "none"]]
  /\ conn = [s \in Sessions |-> [t \in Tasks |-> 0]]
  /\ backlog = <<>>
  /\ dropped = {}
  /\ rx = [c \in Tasks |-> [s \in Sessions |-> <<>>]]
  /\ cpc = [s \in Sessions |-> [c \in Consumers |-> "idle"]]
  /\ carg = [s \in Sessions |-> [c \in Consumers |-> 0]]
  /\ cdata = [s \in Sessions |-> [c \in Consumers |-> <<>>]]
  /\ cret = [s \in Sessions |-> [c \in Consumers |-> "-"]]
  /\ nconn = [s \in Sessions |-> 0]
  /\ ndisc = [s \in Sessions |-> 0]
  /\ nsend = [s \in Sessions |-> 0]
  /\ cbLog = [s \in Sessions |-> [k \in Tasks |-> <<>>]]
  /\ sent = [s \in Sessions |-> <<>>]
  /\ got = [s \in Sessions |-> <<>>]
  /\ value = <<>> /\ frame = <<>> /\ decoded = <<"none">>
  /\ CastInit

\* ------------------------------------------------------------- helpers
Min(a, b) == IF a < b THEN a ELSE b

\* Thread.is_alive()
is_alive(s, t) == tpc[s][t] \notin {"unborn", "dead"}

\* NetManager.is_connected
is_connected(s) == client[s] # 0

\* the other end of the connection of socket (s, t) has been closed
PeerClosed(s, t) ==
  LET c == conn[s][t]
  IN IF as_server(s)
     THEN sock[Peer(s)][c] = "closed"
     ELSE \/ c \in dropped
          \/ \E u \in Tasks : conn[Peer(s)][u] = c /\ sock[Peer(s)][u] = "closed"

\* `self._listen_thread is not None and self._listen_thread.is_alive()`
ThreadRunning(s) ==
  IF listen_thread[s] = 0 THEN FALSE ELSE is_alive(s, listen_thread[s])

\* sendall on self.client raises: AttributeError on None, OSError on a closed
\* descriptor or a connection the peer has closed
WriteRaises(s) ==
  IF client[s] = 0 THEN TRUE
  ELSE sock[s][client[s]] = "closed" \/ PeerClosed(s, client[s])

\* socket.close(): the bytes the socket had not read are discarded with it
Discard(s, t) ==
  IF conn[s][t] = 0 THEN rx ELSE [rx EXCEPT ![conn[s][t]][s] = <<>>]

Set2(f, s, t, v) == [f EXCEPT ![s][t] = v]

\* ------------------------------------------- NetManagerThread.run, listener
\* socket(); bind(); listen(3); setblocking(False): no other socket holds the port
BindOk(s, t) ==
  /\ as_server(s) /\ tpc[s][t] = "start"
  /\ \A u \in Tasks : srv[s][u] # "listening"
  /\ srv' = Set2(srv, s, t, "listening")
  /\ backlog' = <<>>
  /\ tpc' = Set2(tpc, s, t, "accept_chk")
  /\ UNCHANGED <<castVars, codecVars, nmVars, tlen, texit, sock, conn, dropped, rx, conVars, budVars, histVars>>

\* bind() or listen() raises (address in use, or any other OSError)
BindFail(s, t) ==
  /\ as_server(s) /\ tpc[s][t] = "start"
  /\ tpc' = Set2(tpc, s, t, "cb_err")
  /\ UNCHANGED <<castVars, codecVars, nmVars, tlen, texit, osVars, conVars, budVars, histVars>>

\* `while not self.stop_event.is_set()` of the accept loop; its else branch returns
AcceptCheck(s, t) ==
  /\ tpc[s][t] = "accept_chk"
  /\ IF stop_event[s]
     THEN /\ tpc' = Set2(tpc, s, t, "dead")
          /\ texit' = Set2(texit, s, t, "stopped")
     ELSE /\ tpc' = Set2(tpc, s, t, "accept")
          /\ UNCHANGED texit
  /\ UNCHANGED <<castVars, codecVars, nmVars, tlen, osVars, conVars, budVars, histVars>>

\* self.server.accept() returns a connection
AcceptOk(s, t) ==
  /\ tpc[s][t] = "accept"
  /\ backlog # <<>>
  /\ conn' = Set2(conn, s, t, Head(backlog))
  /\ sock' = Set2(sock, s, t, "open")
  /\ backlog' = Tail(backlog)
  /\ tpc' = Set2(tpc, s, t, "store")
  /\ UNCHANGED <<castVars, codecVars, nmVars, tlen, texit, srv, dropped, rx, conVars, budVars, histVars>>

\* self.server.accept() raises BlockingIOError; sleep(0.1)
AcceptBlock(s, t) ==
  /\ tpc[s][t] = "accept"
  /\ backlog = <<>>
  /\ tpc' = Set2(tpc, s, t, "accept_chk")
  /\ UNCHANGED <<castVars, codecVars, nmVars, tlen, texit, osVars, conVars, budVars, histVars>>

\* ------------------------------------------ NetManagerThread.run, initiator
\* socket(); connect() succeeds: the peer listens and its accept queue has room
DialOk(s, t) ==
  /\ ~as_server(s) /\ tpc[s][t] = "start"
  /\ \E u \in Tasks : srv[Peer(s)][u] = "listening"
  /\ Len(backlog) < Backlog
  /\ sock' = Set2(sock, s, t, "open")
  /\ conn' = Set2(conn, s, t, t)
  /\ backlog' = Append(backlog, t)
  /\ tpc' = Set2(tpc, s, t, "store")
  /\ UNCHANGED <<castVars, codecVars, nmVars, tlen, texit, srv, dropped, rx, conVars, budVars, histVars>>

\* socket(); connect() raises (refused, unreachable, timed out)
DialFail(s, t) ==
  /\ ~as_server(s) /\ tpc[s][t] = "start"
  /\ sock' = Set2(sock, s, t, "open")
  /\ tpc' = Set2(tpc, s, t, "cb_err")
  /\ UNCHANGED <<castVars, codecVars, nmVars, tlen, texit, srv, conn, backlog, dropped, rx, conVars, budVars, histVars>>

\* ------------------------------------- NetManagerThread.run, after establishment
\* the except clause without its `return`: run() goes on after the callback
CallbackErr_NoReturn(s, t) ==
  /\ tpc[s][t] = "cb_err"
  /\ cbLog' = Set2(cbLog, s, t, Append(cbLog[s][t], "err"))
  /\ tpc' = Set2(tpc, s, t, "store")
  /\ UNCHANGED <<castVars, codecVars, nmVars, tlen, texit, osVars, conVars, budVars, sent, got>>

\* except Exception as e: self.connect_callback(e); return
CallbackErr(s, t) ==
  /\ tpc[s][t] = "cb_err"
  /\ cbLog' = Set2(cbLog, s, t, Append(cbLog[s][t], "err"))
  /\ tpc' = Set2(tpc, s, t, "dead")
  /\ texit' = Set2(texit, s, t, "failed")
  /\ UNCHANGED <<castVars, codecVars, nmVars, tlen, osVars, conVars, budVars, sent, got>>

\* run() without `self.net_man.client = self.client`
StoreHandle_NotStored(s, t) ==
  /\ tpc[s][t] = "store"
  /\ tpc' = Set2(tpc, s, t, "cb_ok")
  /\ UNCHANGED <<castVars, codecVars, nmVars, tlen, texit, osVars, conVars, budVars, histVars>>

\* setblocking(True); settimeout(0.1); self.net_man.client = self.client
StoreHandle(s, t) ==
  /\ tpc[s][t] = "store"
  /\ client' = [client EXCEPT ![s] = t]
  /\ tpc' = Set2(tpc, s, t, "cb_ok")
  /\ UNCHANGED <<castVars, codecVars, listen_thread, stop_event, data_queue, tlen, texit, osVars, conVars,
                 budVars, histVars>>

\* self.connect_callback(None) returns
CallbackOk(s, t) ==
  /\ tpc[s][t] = "cb_ok"
  /\ cbLog' = Set2(cbLog, s, t, Append(cbLog[s][t], "ok"))
  /\ tpc' = Set2(tpc, s, t, "loop")
  /\ UNCHANGED <<castVars, codecVars, nmVars, tlen, texit, osVars, conVars, budVars, sent, got>>

\* self.connect_callback(None) raises: it is called outside the try, run() ends here
CallbackOkRaise(s, t) ==
  /\ tpc[s][t] = "cb_ok"
  /\ cbLog' = Set2(cbLog, s, t, Append(cbLog[s][t], "ok"))
  /\ tpc' = Set2(tpc, s, t, "dead")
  /\ texit' = Set2(texit, s, t, "cb_raised")
  /\ UNCHANGED <<castVars, codecVars, nmVars, tlen, osVars, conVars, budVars, sent, got>>

\* `while not self.stop_event.is_set()` of the receive loop
LoopCheck(s, t) ==
  /\ tpc[s][t] = "loop"
  /\ IF stop_event[s]
     THEN /\ tpc' = Set2(tpc, s, t, "finally")
          /\ texit' = Set2(texit, s, t, "stop")
     ELSE /\ tpc' = Set2(tpc, s, t, "recv_hdr")
          /\ UNCHANGED texit
  /\ UNCHANGED <<castVars, codecVars, nmVars, tlen, osVars, conVars, budVars, histVars>>

\* a recv() on the socket raises socket.timeout: continue
RecvTimeout(s, t) ==
  /\ tpc[s][t] \in {"recv_hdr", "recv_data"}
  /\ sock[s][t] = "open"
  /\ tpc[s][t] = "recv_data" => tlen[s][t] > 0
  /\ tpc' = Set2(tpc, s, t, "loop")
  /\ tlen' = Set2(tlen, s, t, 0)
  /\ UNCHANGED <<castVars, codecVars, nmVars, texit, osVars, conVars, budVars, histVars>>

\* a recv() on the socket raises OSError (the descriptor was closed by
\* disconnect) or ConnectionResetError (the peer went away): break
RecvOSError(s, t) ==
  /\ tpc[s][t] \in {"recv_hdr", "recv_data"}
  /\ sock[s][t] = "closed" \/ PeerClosed(s, t)
  /\ tpc' = Set2(tpc, s, t, "finally")
  /\ texit' = Set2(texit, s, t, "oserror")
  /\ tlen' = Set2(tlen, s, t, 0)
  /\ UNCHANGED <<castVars, codecVars, nmVars, osVars, conVars, budVars, histVars>>

\* b_length = self.client.recv(4): the k <= 4 bytes that have arrived;
\* length = struct.unpack("i", b_length)[0]
RecvHeader(s, t) ==
  /\ tpc[s][t] = "recv_hdr"
  /\ sock[s][t] = "open"
  /\ LET c == conn[s][t]
         buf == rx[c][s]
     IN /\ buf # <<>>
        /\ \E k \in 1..Min(HeaderSize, Len(buf)) :
             LET b_length == SubSeq(buf, 1, k)
             IN /\ rx' = Set2(rx, c, s, SubSeq(buf, k + 1, Len(buf)))
                /\ IF UnpackOk(b_length)
                   THEN /\ tlen' = Set2(tlen, s, t, Unpack(b_length))
                        /\ tpc' = Set2(tpc, s, t, "recv_data")
                        /\ UNCHANGED texit
                   ELSE /\ tpc' = Set2(tpc, s, t, "finally")
                        /\ texit' = Set2(texit, s, t, "decode")
                        /\ UNCHANGED tlen
  /\ UNCHANGED <<castVars, codecVars, nmVars, sock, srv, conn, backlog, dropped, conVars, budVars, histVars>>

\* recv() returns b"" at end of stream: struct.unpack / pickle.loads raises: break
RecvEof(s, t) ==
  /\ tpc[s][t] \in {"recv_hdr", "recv_data"}
  /\ sock[s][t] = "open"
  /\ rx[conn[s][t]][s] = <<>>
  /\ PeerClosed(s, t)
  /\ tpc' = Set2(tpc, s, t, "finally")
  /\ texit' = Set2(texit, s, t, "decode")
  /\ tlen' = Set2(tlen, s, t, 0)
  /\ UNCHANGED <<castVars, codecVars, nmVars, osVars, conVars, budVars, histVars>>

\* b_data = self.client.recv(length): the k <= length bytes that have arrived
\* (ValueError for a negative length, b"" for length 0);
\* data = pickle.loads(b_data); self.net_man.data_queue.put(data)
RecvData(s, t) ==
  /\ tpc[s][t] = "recv_data"
  /\ sock[s][t] = "open"
  /\ LET c == conn[s][t]
         buf == rx[c][s]
         length == tlen[s][t]
     IN IF length <= 0
        THEN /\ tpc' = Set2(tpc, s, t, "finally")
             /\ texit' = Set2(texit, s, t, "decode")
             /\ tlen' = Set2(tlen, s, t, 0)
             /\ UNCHANGED <<castVars, codecVars, rx, data_queue>>
        ELSE /\ buf # <<>>
             /\ \E k \in 1..Min(length, Len(buf)) :
                  LET b_data == SubSeq(buf, 1, k)
                      data == Loads(b_data)
                  IN /\ rx' = Set2(rx, c, s, SubSeq(buf, k + 1, Len(buf)))
                     /\ tlen' = Set2(tlen, s, t, 0)
                     /\ IF data[1]
                        THEN /\ data_queue' = [data_queue EXCEPT ![s] = Append(@, data[2])]
                             /\ tpc' = Set2(tpc, s, t, "loop")
                             /\ UNCHANGED texit
                        ELSE /\ tpc' = Set2(tpc, s, t, "finally")
                             /\ texit' = Set2(texit, s, t, "decode")
                             /\ UNCHANGED data_queue
  /\ UNCHANGED <<castVars, codecVars, listen_thread, stop_event, client, sock, srv, conn, backlog,
                 dropped, conVars, budVars, histVars>>

\* a finally block that also reports the end of the loop through connect_callback
Finally_ReportsError(s, t) ==
  /\ tpc[s][t] = "finally"
  /\ sock' = Set2(sock, s, t, "closed")
  /\ rx' = Discard(s, t)
  /\ client' = [client EXCEPT ![s] = 0]
  /\ tpc' = Set2(tpc, s, t, "dead")
  /\ cbLog' = Set2(cbLog, s, t, Append(cbLog[s][t], "err"))
  /\ UNCHANGED <<castVars, codecVars, listen_thread, stop_event, data_queue, tlen, texit, srv, conn, backlog,
                 dropped, conVars, budVars, sent, got>>

\* a finally block that also replaces the Inbound Queue by an empty one
Finally_DropsQueue(s, t) ==
  /\ tpc[s][t] = "finally"
  /\ sock' = Set2(sock, s, t, "closed")
  /\ rx' = Discard(s, t)
  /\ client' = [client EXCEPT ![s] = 0]
  /\ data_queue' = [data_queue EXCEPT ![s] = <<>>]
  /\ tpc' = Set2(tpc, s, t, "dead")
  /\ UNCHANGED <<castVars, codecVars, listen_thread, stop_event, tlen, texit, srv, conn, backlog,
                 dropped, conVars, budVars, histVars>>

\* finally: self.client.close(); self.net_man.client = None
Finally(s, t) ==
  /\ tpc[s][t] = "finally"
  /\ sock' = Set2(sock, s, t, "closed")
  /\ rx' = Discard(s, t)
  /\ client' = [client EXCEPT ![s] = 0]
  /\ tpc' = Set2(tpc, s, t, "dead")
  /\ UNCHANGED <<castVars, codecVars, listen_thread, stop_event, data_queue, tlen, texit, srv, conn, backlog,
                 dropped, conVars, budVars, histVars>>

\* -------------------------------------------------------- NetManager.connect
\* connect() without the is_alive() test: a thread is created in any case
ConnectNoop_Spawns(s, c) ==
  /\ cpc[s][c] = "idle" /\ nconn["A"] + nconn["B"] < MaxConnects
  /\ ThreadRunning(s)
  /\ nconn' = [nconn EXCEPT ![s] = @ + 1]
  /\ carg' = Set2(carg, s, c, nconn[s] + 1)
  /\ cpc' = Set2(cpc, s, c, "connect_start")
  /\ UNCHANGED <<castVars, codecVars, nmVars, thrVars, osVars, cdata, cret, ndisc, nsend, histVars>>

\* `if self._listen_thread is None or not self._listen_thread.is_alive()` is false
ConnectNoop(s, c) ==
  /\ cpc[s][c] = "idle" /\ nconn["A"] + nconn["B"] < MaxConnects
  /\ ThreadRunning(s)
  /\ nconn' = [nconn EXCEPT ![s] = @ + 1]
  /\ UNCHANGED <<castVars, codecVars, nmVars, thrVars, osVars, conVars, ndisc, nsend, histVars>>

\* the same test is true; connect_callback is the callback of call number nconn + 1
ConnectCheck(s, c) ==
  /\ cpc[s][c] = "idle" /\ nconn["A"] + nconn["B"] < MaxConnects
  /\ ~ThreadRunning(s)
  /\ nconn' = [nconn EXCEPT ![s] = @ + 1]
  /\ carg' = Set2(carg, s, c, nconn[s] + 1)
  /\ cpc' = Set2(cpc, s, c, "connect_start")
  /\ cret' = Set2(cret, s, c, "-")
  /\ UNCHANGED <<castVars, codecVars, nmVars, thrVars, osVars, cdata, ndisc, nsend, histVars>>

\* the thread object _listen_thread referred to is released when the field is
\* rebound: a finished thread's sockets are closed with it unless the session
\* still holds them in self.client
Released(s) ==
  LET old == listen_thread[s]
  IN IF old # 0 /\ ~ThreadRunning(s) THEN {old} ELSE {}

\* self._listen_thread = NetManagerThread(...); daemon = True; start()
ConnectStart(s, c) ==
  /\ cpc[s][c] = "connect_start"
  /\ LET t == carg[s][c]
         rel == Released(s)
         lost == {u \in rel : srv[s][u] = "listening"}
     IN /\ listen_thread' = [listen_thread EXCEPT ![s] = t]
        /\ tpc' = Set2(tpc, s, t, "start")
        /\ srv' = [srv EXCEPT ![s] = [u \in Tasks |-> IF u \in lost THEN "closed" ELSE @[u]]]
        /\ sock' = [sock EXCEPT ![s] = [u \in Tasks |->
                      IF u \in rel /\ @[u] = "open" /\ client[s] # u THEN "closed" ELSE @[u]]]
        /\ backlog' = IF lost # {} THEN <<>> ELSE backlog
        /\ dropped' = IF lost # {} THEN dropped \cup {backlog[i] : i \in 1..Len(backlog)}
                       ELSE dropped
  /\ cpc' = Set2(cpc, s, c, "idle")
  /\ carg' = Set2(carg, s, c, 0)
  /\ UNCHANGED <<castVars, codecVars, stop_event, client, data_queue, tlen, texit, conn, rx, cdata, cret,
                 budVars, histVars>>

\* ----------------------------------------------------- NetManager.disconnect
\* self._stop_event.set(); `if self.client is not None`
DisconnectCall(s, c) ==
  /\ cpc[s][c] = "idle" /\ ndisc["A"] + ndisc["B"] < MaxDisconnects
  /\ ndisc' = [ndisc EXCEPT ![s] = @ + 1]
  /\ stop_event' = [stop_event EXCEPT ![s] = TRUE]
  /\ carg' = Set2(carg, s, c, client[s])
  /\ cpc' = Set2(cpc, s, c, IF client[s] # 0 THEN "disc_close" ELSE "disc_join")
  /\ cret' = Set2(cret, s, c, "-")
  /\ UNCHANGED <<castVars, codecVars, listen_thread, client, data_queue, thrVars, osVars, cdata, nconn, nsend,
                 histVars>>

\* self.client.close(), self.client read again
DisconnectClose(s, c) ==
  /\ cpc[s][c] = "disc_close"
  /\ client[s] # 0
  /\ sock' = Set2(sock, s, client[s], "closed")
  /\ rx' = Discard(s, client[s])
  /\ cpc' = Set2(cpc, s, c, "disc_join")
  /\ UNCHANGED <<castVars, codecVars, nmVars, thrVars, srv, conn, backlog, dropped, carg, cdata, cret,
                 budVars, histVars>>

\* self.client is None by now: None.close() raises AttributeError out of disconnect
DisconnectCloseRaise(s, c) ==
  /\ cpc[s][c] = "disc_close"
  /\ client[s] = 0
  /\ cpc' = Set2(cpc, s, c, "idle")
  /\ cret' = Set2(cret, s, c, "AttributeError")
  /\ UNCHANGED <<castVars, codecVars, nmVars, thrVars, osVars, carg, cdata, budVars, histVars>>

\* `if self._listen_thread is not None and is_alive(): join()`: returns once the
\* thread has finished
DisconnectJoin(s, c) ==
  /\ cpc[s][c] = "disc_join"
  /\ ~ThreadRunning(s)
  /\ cpc' = Set2(cpc, s, c, "idle")
  /\ cret' = Set2(cret, s, c, "returned")
  /\ UNCHANGED <<castVars, codecVars, nmVars, thrVars, osVars, carg, cdata, budVars, histVars>>

\* ----------------------------------------------------------- NetManager.send
\* send() without the `self.client is None` test: it goes on to the write
SendNotConnected_NoTest(s, c, d) ==
  /\ cpc[s][c] = "idle" /\ nsend["A"] + nsend["B"] < MaxSends
  /\ client[s] = 0
  /\ nsend' = [nsend EXCEPT ![s] = @ + 1]
  /\ cdata' = Set2(cdata, s, c, d)
  /\ cpc' = Set2(cpc, s, c, "send_write")
  /\ cret' = Set2(cret, s, c, "-")
  /\ UNCHANGED <<castVars, codecVars, nmVars, thrVars, osVars, carg, nconn, ndisc, histVars>>

\* `if self.client is None: return 1`
SendNotConnected(s, c, d) ==
  /\ cpc[s][c] = "idle" /\ nsend["A"] + nsend["B"] < MaxSends
  /\ client[s] = 0
  /\ nsend' = [nsend EXCEPT ![s] = @ + 1]
  /\ cret' = Set2(cret, s, c, "1")
  /\ UNCHANGED <<castVars, codecVars, nmVars, thrVars, osVars, cpc, carg, cdata, nconn, ndisc, histVars>>

\* the test is false: go on to the try block
SendCheck(s, c, d) ==
  /\ cpc[s][c] = "idle" /\ nsend["A"] + nsend["B"] < MaxSends
  /\ client[s] # 0
  /\ nsend' = [nsend EXCEPT ![s] = @ + 1]
  /\ cdata' = Set2(cdata, s, c, d)
  /\ cpc' = Set2(cpc, s, c, "send_write")
  /\ cret' = Set2(cret, s, c, "-")
  /\ UNCHANGED <<castVars, codecVars, nmVars, thrVars, osVars, carg, nconn, ndisc, histVars>>

\* self.client.sendall(self._pack_data(data)); return 0
SendWriteOk(s, c) ==
  /\ cpc[s][c] = "send_write"
  /\ client[s] # 0
  /\ sock[s][client[s]] = "open"
  /\ LET k == conn[s][client[s]]
     IN rx' = IF PeerClosed(s, client[s]) THEN rx
              ELSE Set2(rx, k, Peer(s), rx[k][Peer(s)] \o pack_data(cdata[s][c]))
  /\ sent' = [sent EXCEPT ![s] = Append(@, cdata[s][c])]
  /\ cpc' = Set2(cpc, s, c, "idle")
  /\ cret' = Set2(cret, s, c, "0")
  /\ cdata' = Set2(cdata, s, c, <<>>)
  /\ UNCHANGED <<castVars, codecVars, nmVars, thrVars, sock, srv, conn, backlog, dropped, carg, budVars,
                 cbLog, got>>

\* send() with `return 0` after the try statement instead of inside it
SendWriteFail_ReturnsZero(s, c) ==
  /\ cpc[s][c] = "send_write"
  /\ WriteRaises(s)
  /\ cpc' = Set2(cpc, s, c, "idle")
  /\ cret' = Set2(cret, s, c, "0")
  /\ cdata' = Set2(cdata, s, c, <<>>)
  /\ UNCHANGED <<castVars, codecVars, nmVars, thrVars, osVars, carg, budVars, histVars>>

\* the write raises (self.client is None by now, the descriptor is closed, the
\* peer is gone): except Exception: logging.warning(...), then the function ends
SendWriteFail(s, c) ==
  /\ cpc[s][c] = "send_write"
  /\ WriteRaises(s)
  /\ cpc' = Set2(cpc, s, c, "idle")
  /\ cret' = Set2(cret, s, c, "None")
  /\ cdata' = Set2(cdata, s, c, <<>>)
  /\ UNCHANGED <<castVars, codecVars, nmVars, thrVars, osVars, carg, budVars, histVars>>

\* ----------------------------------------------------------- NetManager.recv
\* `if self.data_queue.empty(): return None`
RecvEmpty(s, c) ==
  /\ cpc[s][c] = "idle"
  /\ data_queue[s] = <<>>
  /\ cret' = Set2(cret, s, c, "None")
  /\ UNCHANGED <<castVars, codecVars, nmVars, thrVars, osVars, cpc, carg, cdata, budVars, histVars>>

\* the queue was not empty when tested
RecvCheck(s, c) ==
  /\ cpc[s][c] = "idle"
  /\ data_queue[s] # <<>>
  /\ cpc' = Set2(cpc, s, c, "recv_get")
  /\ cret' = Set2(cret, s, c, "-")
  /\ UNCHANGED <<castVars, codecVars, nmVars, thrVars, osVars, carg, cdata, budVars, histVars>>

\* `return self.data_queue.get()`: Queue.get() waits while the queue is empty
RecvGet(s, c) ==
  /\ cpc[s][c] = "recv_get"
  /\ data_queue[s] # <<>>
  /\ data_queue' = [data_queue EXCEPT ![s] = Tail(@)]
  /\ got' = [got EXCEPT ![s] = Append(@, Head(data_queue[s]))]
  /\ cpc' = Set2(cpc, s, c, "idle")
  /\ cret' = Set2(cret, s, c, "data")
  /\ UNCHANGED <<castVars, codecVars, listen_thread, stop_event, client, thrVars, osVars, carg, cdata, budVars,
                 cbLog, sent>>

\* ------------------------------------------------------------ specification
\* run() up to the receive loop
EstabStep(s, t) ==
  \/ BindOk(s, t) \/ BindFail(s, t) \/ AcceptCheck(s, t) \/ AcceptOk(s, t)
  \/ AcceptBlock(s, t) \/ DialOk(s, t) \/ DialFail(s, t) \/ CallbackErr(s, t)
  \/ StoreHandle(s, t) \/ CallbackOk(s, t) \/ CallbackOkRaise(s, t)

\* the receive loop on a stream that carries no bytes, and its exit
LoopStep(s, t) ==
  \/ LoopCheck(s, t) \/ RecvTimeout(s, t) \/ RecvOSError(s, t) \/ RecvEof(s, t)
  \/ Finally(s, t)

\* the receive loop reading frames
DataStep(s, t) == RecvHeader(s, t) \/ RecvData(s, t)

ConnectStep(s, c) == ConnectNoop(s, c) \/ ConnectCheck(s, c) \/ ConnectStart(s, c)

DisconnectStep(s, c) ==
  \/ DisconnectCall(s, c) \/ DisconnectClose(s, c) \/ DisconnectCloseRaise(s, c)
  \/ DisconnectJoin(s, c)

SendStep(s, c) ==
  \/ (\E d \in Values : SendNotConnected(s, c, d))
  \/ (\E d \in Values : SendCheck(s, c, d))
  \/ SendWriteOk(s, c) \/ SendWriteFail(s, c)

RecvStep(s, c) == RecvEmpty(s, c) \/ RecvCheck(s, c) \/ RecvGet(s, c)

\* every operation, one consumer thread per session
Next ==
  \/ \E s \in Sessions, t \in Tasks : EstabStep(s, t) \/ LoopStep(s, t) \/ DataStep(s, t)
  \/ \E s \in Sessions : ConnectStep(s, 1) \/ DisconnectStep(s, 1) \/ SendStep(s, 1)
                            \/ RecvStep(s, 1)

Spec == Init /\ [][Next]_vars

\* connection life cycle: the consumers only connect and disconnect
NextLife ==
  \/ \E s \in Sessions, t \in Tasks : EstabStep(s, t) \/ LoopStep(s, t)
  \/ \E s \in Sessions : ConnectStep(s, 1) \/ DisconnectStep(s, 1)

SpecLife == Init /\ [][NextLife]_vars

\* life cycle with two consumer threads per session, each calling connect and
\* disconnect
NextLife2 ==
  \/ \E s \in Sessions, t \in Tasks : EstabStep(s, t) \/ LoopStep(s, t)
  \/ \E s \in Sessions, c \in Consumers : ConnectStep(s, c) \/ DisconnectStep(s, c)

SpecLife2 == Init /\ [][NextLife2]_vars

\* life cycle and sending: one consumer thread of each session connects and
\* disconnects, another one sends; nobody polls the Inbound Queue
NextSend ==
  \/ \E s \in Sessions, t \in Tasks : EstabStep(s, t) \/ LoopStep(s, t) \/ DataStep(s, t)
  \/ \E s \in Sessions : ConnectStep(s, 1) \/ DisconnectStep(s, 1) \/ SendStep(s, 2)

SpecSend == Init /\ [][NextSend]_vars

\* ---------------------------------------------------- the codec on its own
CodecElems == {0, 1, 255}

RECURSIVE CodecSeqs(_)
CodecSeqs(n) ==
  IF n = 0 THEN {<<>>}
  ELSE LET P == CodecSeqs(n - 1)
       IN P \cup {Append(q, e) : q \in {p \in P : Len(p) = n - 1}, e \in CodecElems}

\* values whose payload is longer than one header byte can count
LongValues == {[i \in 1..n |-> 1] : n \in 126..129}

CodecValues == CodecSeqs(MaxCodecLen) \cup LongValues

\* frame = self._pack_data(v)
Encode(v) ==
  /\ frame = <<>>
  /\ value' = v
  /\ frame' = pack_data(v)
  /\ UNCHANGED <<castVars, nmVars, thrVars, osVars, conVars, budVars, histVars, decoded>>

\* the receive path on a frame that is read whole: b_length = recv(4);
\* length = struct.unpack("i", b_length)[0]; b_data = recv(length);
\* data = pickle.loads(b_data)
Decode ==
  /\ frame # <<>> /\ decoded = <<"none">>
  /\ LET b_length == SubSeq(frame, 1, Min(HeaderSize, Len(frame)))
         length == Unpack(b_length)
         rest == SubSeq(frame, HeaderSize + 1, Len(frame))
         b_data == SubSeq(rest, 1, Min(length, Len(rest)))
         data == Loads(b_data)
     IN decoded' = IF UnpackOk(b_length) /\ length > 0 /\ data[1]
                   THEN <<"value", data[2], Len(rest) - Len(b_data)>>
                   ELSE <<"error">>
  /\ UNCHANGED <<castVars, nmVars, thrVars, osVars, conVars, budVars, histVars, value, frame>>

\* the next value
Reset ==
  /\ decoded # <<"none">>
  /\ value' = <<>> /\ frame' = <<>> /\ decoded' = <<"none">>
  /\ UNCHANGED <<castVars, nmVars, thrVars, osVars, conVars, budVars, histVars>>

NextCodec == (\E v \in CodecValues : Encode(v)) \/ Decode \/ Reset

SpecCodec == Init /\ [][NextCodec]_vars

\* Both connects have succeeded and both background tasks stand at the top of the
\* receive loop (Connected is a state SpecLife reaches).
Connected ==
  /\ listen_thread = [s \in Sessions |-> 1]
  /\ stop_event = [s \in Sessions |-> FALSE]
  /\ client = [s \in Sessions |-> 1]
  /\ data_queue = [s \in Sessions |-> <<>>]
  /\ tpc = [s \in Sessions |-> [t \in Tasks |-> IF t = 1 THEN "loop" ELSE "unborn"]]
  /\ tlen = [s \in Sessions |-> [t \in Tasks |-> 0]]
  /\ texit = [s \in Sessions |-> [t \in Tasks |-> "none"]]
  /\ sock = [s \in Sessions |-> [t \in Tasks |-> IF t = 1 THEN "open" ELSE "none"]]
  /\ srv = [s \in Sessions |-> [t \in Tasks |->
              IF as_server(s) /\ t = 1 THEN "listening" ELSE "none"]]
  /\ conn = [s \in Sessions |-> [t \in Tasks |-> IF t = 1 THEN 1 ELSE 0]]
  /\ backlog = <<>>
  /\ dropped = {}
  /\ rx = [c \in Tasks |-> [s \in Sessions |-> <<>>]]
  /\ cpc = [s \in Sessions |-> [c \in Consumers |-> "idle"]]
  /\ carg = [s \in Sessions |-> [c \in Consumers |-> 0]]
  /\ cdata = [s \in Sessions |-> [c \in Consumers |-> <<>>]]
  /\ cret = [s \in Sessions |-> [c \in Consumers |-> "-"]]
  /\ nconn = [s \in Sessions |-> 1]
  /\ ndisc = [s \in Sessions |-> 0]
  /\ nsend = [s \in Sessions |-> 0]
  /\ cbLog = [s \in Sessions |-> [k \in Tasks |-> IF k = 1 THEN <<"ok">> ELSE <<>>]]
  /\ sent = [s \in Sessions |-> <<>>]
  /\ got = [s \in Sessions |-> <<>>]
  /\ value = <<>> /\ frame = <<>> /\ decoded = <<"none">>
  /\ CastInit

\* data transfer from A to B over the established connection: nobody disconnects,
\* two consumer threads poll B
NextData ==
  \/ \E s \in Sessions, t \in Tasks : LoopStep(s, t) \/ DataStep(s, t)
  \/ SendStep("A", 1)
  \/ \E c \in Consumers : RecvStep("B", c)

SpecData == Connected /\ [][NextData]_vars

\* the Inbound Queue across the life cycle: one consumer
\* thread of each session connects and disconnects, another one sends on A and
\* polls B
NextQueue ==
  \/ \E s \in Sessions, t \in Tasks : EstabStep(s, t) \/ LoopStep(s, t) \/ DataStep(s, t)
  \/ \E s \in Sessions : ConnectStep(s, 1) \/ DisconnectStep(s, 1)
  \/ SendStep("A", 2) \/ RecvStep("B", 2)

SpecQueue == Init /\ [][NextQueue]_vars

\* the same with connect() called by two consumer threads of the initiator, one
\* of which also disconnects (no polling of the Inbound Queue)
NextQueue2 ==
  \/ \E s \in Sessions, t \in Tasks : EstabStep(s, t) \/ LoopStep(s, t) \/ DataStep(s, t)
  \/ ConnectStep("A", 1)
  \/ \E c \in Consumers : ConnectStep("B", c)
  \/ DisconnectStep("B", 1)
  \/ SendStep("A", 2)

SpecQueue2 == Init /\ [][NextQueue2]_vars

\* ------------------------------------- NetManager.broadcast / recv_broadcast
\* the longest list whose serialisation fits one datagram read
FitLen == (MaxDatagram - 2) \div 2

\* the values handed to broadcast(): short ones, the longest that fits the
\* receiver's read, and the shortest that does not
CastValues == Values \cup {[i \in 1..n |-> 1] : n \in {FitLen, FitLen + 1}}

\* one datagram to every socket bound to the port at this moment
Deliver(bytes, s) ==
  [r \in Sessions |-> IF r \in ubound THEN Append(ubuf[r], <<bytes, s>>) ELSE ubuf[r]]

\* broadcast() sending the stream frame (length header first) as the datagram
broadcast_Framed(s, d) ==
  /\ upc[s] = "idle" /\ ncast < MaxCasts
  /\ ubuf' = Deliver(pack_data(d), s)
  /\ casts' = Append(casts, <<d, s>>)
  /\ ncast' = ncast + 1
  /\ UNCHANGED <<nmVars, thrVars, osVars, conVars, budVars, histVars, codecVars,
                 upc, ubound, uret, nlisten>>

\* broadcast(data, port): socket(); setsockopt(SO_BROADCAST);
\* data_bin = pickle.dumps(data); s.sendto(data_bin, address); s.close()
broadcast(s, d) ==
  /\ upc[s] = "idle" /\ ncast < MaxCasts
  /\ ubuf' = Deliver(Dumps(d), s)
  /\ casts' = Append(casts, <<d, s>>)
  /\ ncast' = ncast + 1
  /\ UNCHANGED <<nmVars, thrVars, osVars, conVars, budVars, histVars, codecVars,
                 upc, ubound, uret, nlisten>>

\* recv_broadcast(port): socket(); setsockopt(SO_BROADCAST); s.bind(address)
recv_broadcast_bind(s) ==
  /\ upc[s] = "idle" /\ nlisten < MaxListens
  /\ nlisten' = nlisten + 1
  /\ ubound' = ubound \cup {s}
  /\ upc' = [upc EXCEPT ![s] = "recvfrom"]
  /\ uret' = [uret EXCEPT ![s] = <<"none">>]
  /\ UNCHANGED <<nmVars, thrVars, osVars, conVars, budVars, histVars, codecVars,
                 ubuf, casts, ncast>>

\* data, address = s.recvfrom(1024): waits for a datagram, keeps at most 1024 bytes
\* of it; s.close(); return pickle.loads(data), address.  When pickle.loads raises,
\* the socket goes with the frame of the call.
recv_broadcast_recvfrom(s) ==
  /\ upc[s] = "recvfrom"
  /\ ubuf[s] # <<>>
  /\ LET dgram == Head(ubuf[s])
         data == SubSeq(dgram[1], 1, Min(MaxDatagram, Len(dgram[1])))
         address == dgram[2]
         loaded == Loads(data)
     IN uret' = [uret EXCEPT ![s] = IF loaded[1] THEN <<"value", loaded[2], address>>
                                     ELSE <<"raised">>]
  /\ ubound' = ubound \ {s}
  /\ ubuf' = [ubuf EXCEPT ![s] = <<>>]
  /\ upc' = [upc EXCEPT ![s] = "idle"]
  /\ UNCHANGED <<nmVars, thrVars, osVars, conVars, budVars, histVars, codecVars,
                 casts, ncast, nlisten>>

CastStep(s) ==
  \/ (\E d \in CastValues : broadcast(s, d))
  \/ recv_broadcast_bind(s) \/ recv_broadcast_recvfrom(s)

\* discovery between the two processes, with their sessions either freshly
\* constructed or connected to each other and polling their sockets
NextCast ==
  \/ \E s \in Sessions : CastStep(s)
  \/ \E s \in Sessions, t \in Tasks : LoopCheck(s, t) \/ RecvTimeout(s, t)

SpecCast == (Init \/ Connected) /\ [][NextCast]_vars

\* ------------------------------------------------------------------ claims
IsPrefix(a, b) == Len(a) <= Len(b) /\ SubSeq(b, 1, Len(a)) = a

\* C1: with A and B connected and nobody disconnecting, what B has received (the
\* values recv() returned followed by those still queued) is a prefix of what A's
\* successful sends sent, in order, and is all of it once every byte A wrote has
\* been read and every send has returned.  (Stated as the claim states it; the
\* code does not satisfy it.)
C1_DeliveredInOrder ==
  LET recvd == got["B"] \o data_queue["B"]
  IN /\ IsPrefix(recvd, sent["A"])
     /\ (/\ \A c \in Consumers : cpc["A"][c] = "idle"
         /\ rx[1]["B"] = <<>>
         /\ tpc["B"][1] # "recv_data")
        => recvd = sent["A"]

\* establishment of task k of session s ended in a stored connection
PastEstablishment(s, k) ==
  \/ tpc[s][k] \in {"loop", "recv_hdr", "recv_data", "finally"}
  \/ tpc[s][k] = "dead" /\ texit[s][k] \in {"stop", "oserror", "decode", "cb_raised"}

\* C2: the callback of a connect call that spawned a task is invoked at most once;
\* once establishment has finished it has been invoked exactly once, with no error
\* if and only if a connection was established and with the error if establishment
\* raised; the end of the receive loop (stop, I/O error, decode error) adds nothing.
C2_CallbackOnce ==
  \A s \in Sessions, k \in Tasks :
    /\ Len(cbLog[s][k]) <= 1
    /\ PastEstablishment(s, k) => cbLog[s][k] = <<"ok">>
    /\ (tpc[s][k] = "dead" /\ texit[s][k] = "failed") => cbLog[s][k] = <<"err">>
    /\ cbLog[s][k] = <<"ok">> => conn[s][k] # 0
    /\ cbLog[s][k] = <<"err">> => conn[s][k] = 0

\* a receive loop has ended on an error and on a stop request after its success
\* callback, and another connect has reported an establishment error
C2_Witness ==
  /\ \E s \in Sessions, k \in Tasks :
       tpc[s][k] = "dead" /\ texit[s][k] \in {"oserror", "decode"} /\ cbLog[s][k] = <<"ok">>
  /\ \E s \in Sessions, k \in Tasks :
       tpc[s][k] = "dead" /\ texit[s][k] = "stop" /\ cbLog[s][k] = <<"ok">>
  /\ \E s \in Sessions, k \in Tasks :
       tpc[s][k] = "dead" /\ texit[s][k] = "failed" /\ cbLog[s][k] = <<"err">>

\* C3: a connect call made while the session's task is alive changes nothing: no
\* task is created, the thread field, the socket handle, the stop flag, the Inbound
\* Queue, the sockets and the callback log stay as they are and the call returns at
\* once; the callback of such a call is never invoked.
C3_ConnectNoop ==
  /\ [][\A s \in Sessions :
          (nconn'[s] # nconn[s] /\ ThreadRunning(s)) =>
            /\ UNCHANGED <<listen_thread, tpc, client, stop_event, data_queue, cbLog,
                           sock, srv, conn>>
            /\ cpc'[s] = cpc[s]]_vars
  /\ [](\A s \in Sessions, k \in Tasks : cbLog[s][k] # <<>> => tpc[s][k] # "unborn")

\* a connect call was a no-op while the established task is in its receive loop
C3_Witness ==
  \E s \in Sessions :
    /\ ThreadRunning(s) /\ tpc[s][listen_thread[s]] = "recv_hdr"
    /\ \A c \in Consumers : cpc[s][c] = "idle"
    /\ \E k \in Tasks : k <= nconn[s] /\ tpc[s][k] = "unborn"

\* C4: when disconnect() returns on a session that held a handle when it was
\* called, is_connected() is false.  (Stated as the claim states it; the code does
\* not satisfy it when the task died in connect_callback(None).)
C4_DisconnectClears ==
  [][\A s \in Sessions, c \in Consumers :
       (cpc[s][c] = "disc_join" /\ cpc'[s][c] = "idle" /\ carg[s][c] # 0)
         => client'[s] = 0]_vars

\* C5: send() on a session that holds no handle returns 1 at once and changes
\* neither the session (handle, stop flag, thread, queue), nor any task, nor any
\* socket or stream.
C5_SendNotConnected ==
  [][\A s \in Sessions :
       (nsend'[s] # nsend[s] /\ client[s] = 0) =>
         /\ \E c \in Consumers : cpc[s][c] = "idle" /\ cret'[s][c] = "1"
         /\ cpc'[s] = cpc[s]
         /\ UNCHANGED <<nmVars, thrVars, osVars, sent>>]_vars

\* send() returned 1 on a session whose connection had been torn down, and on a
\* session whose connect had failed
C5_Witness ==
  /\ \E s \in Sessions, c \in Consumers :
       /\ cret[s][c] = "1" /\ client[s] = 0
       /\ \E t \in Tasks : tpc[s][t] = "dead" /\ cbLog[s][t] = <<"ok">>
                             /\ sock[s][t] = "closed"

\* C6: when the write inside send() fails, send returns a result other than 0,
\* raises nothing, and closes no socket, sets no stop flag and ends no task.
C6_SendFailure ==
  [][\A s \in Sessions, c \in Consumers :
       (cpc[s][c] = "send_write" /\ cpc'[s][c] = "idle" /\ sent'[s] = sent[s]) =>
         /\ cret'[s][c] \notin {"0", "-", "AttributeError"}
         /\ UNCHANGED <<sock, stop_event, tpc, client, listen_thread, data_queue>>]_vars

\* a write failed while the handle was held: disconnect had closed the socket and
\* the receive loop had not yet cleared the handle
C6_Witness ==
  \E s \in Sessions, c \in Consumers :
    /\ cret[s][c] = "None" /\ cpc[s][c] = "idle"
    /\ client[s] # 0 /\ stop_event[s]

\* no receive loop has ended on an I/O or decode error
NoTransportFailure ==
  \A s \in Sessions, t \in Tasks : texit[s][t] \notin {"oserror", "decode"}

\* C7: once both sessions' connect callbacks have been invoked with no error, and
\* while nobody has called disconnect and no receive loop has failed, both sessions
\* are connected; the handle is stored when the success callback is invoked.
C7_BothConnected ==
  /\ ((\E k \in Tasks : cbLog["A"][k] = <<"ok">>)
       /\ (\E k \in Tasks : cbLog["B"][k] = <<"ok">>)
       /\ (\A s \in Sessions : ~stop_event[s])
       /\ NoTransportFailure)
      => \A s \in Sessions : is_connected(s)
  /\ \A s \in Sessions, k \in Tasks : tpc[s][k] = "cb_ok" => client[s] = k

\* listener and initiator have both reported success and are in their receive loops
C7_Witness ==
  /\ cbLog["A"][1] = <<"ok">> /\ cbLog["B"][1] = <<"ok">>
  /\ tpc["A"][1] = "recv_hdr" /\ tpc["B"][1] = "recv_hdr"
  /\ \A s \in Sessions : ~stop_event[s] /\ is_connected(s)

\* C8: recv() never blocks: no consumer thread ever waits inside Queue.get() on an
\* empty Inbound Queue.  (Stated as the claim states it; the code does not
\* satisfy it with two polling threads.)
C8_RecvNeverBlocks ==
  \A s \in Sessions, c \in Consumers :
    ~(cpc[s][c] = "recv_get" /\ data_queue[s] = <<>>)

\* C9: disconnect() raises nothing, and when it has returned the stop flag is set
\* and no task of the session is alive.  (Stated as the claim states it; the code
\* does not satisfy it.)
C9_DisconnectReturns ==
  \A s \in Sessions, c \in Consumers :
    /\ cret[s][c] # "AttributeError"
    /\ (cret[s][c] = "returned" /\ cpc[s][c] = "idle")
         => (stop_event[s] /\ ~ThreadRunning(s))

\* C10: the frame built for a value is a 4-byte header whose integer value is the
\* byte length of the payload after it, the payload decodes to the value, and the
\* receive path reading the whole frame yields the value and leaves no byte over.
C10_RoundTrip ==
  frame # <<>> =>
    /\ Len(frame) >= HeaderSize
    /\ Unpack(SubSeq(frame, 1, HeaderSize)) = Len(frame) - HeaderSize
    /\ Loads(SubSeq(frame, HeaderSize + 1, Len(frame))) = <<TRUE, value>>
    /\ decoded # <<"none">> => decoded = <<"value", value, 0>>

\* a value whose payload length needs the second header byte has been decoded
C10_Witness ==
  /\ Len(value) >= 127
  /\ Len(frame) > 256 + HeaderSize
  /\ decoded = <<"value", value, 0>>

\* the serialisation of the value fits the receiver's single read
FitsDatagram(d) == Len(Dumps(d)) <= MaxDatagram

LiveTasks(s) == {t \in Tasks : is_alive(s, t)}

\* C12: in every reachable state, whatever connect and disconnect calls the
\* consumer threads have interleaved, a session has at most one live background
\* task.  (Stated as the claim states it; the code does not satisfy it when two
\* consumer threads call connect at once.)
C12_OneLiveTask ==
  \A s \in Sessions : Cardinality(LiveTasks(s)) <= 1

\* the stream sockets the session's tasks have created or accepted and not closed
OpenSockets(s) ==
  {<<"client", t>> : t \in {u \in Tasks : sock[s][u] = "open"}}
    \cup {<<"server", t>> : t \in {u \in Tasks : srv[s][u] = "listening"}}

\* the session has been driven to closed: a connection was established, its
\* receive loop has ended and no task is alive
SessionClosed(s) ==
  /\ LiveTasks(s) = {}
  /\ \E t \in Tasks : tpc[s][t] = "dead" /\ texit[s][t] \in {"stop", "oserror", "decode"}

\* C13: in every reachable state a session has at most one open stream socket,
\* counting every socket its tasks created or accepted and have not closed, and
\* none once the session is closed.  (Stated as the claim states it; the code
\* does not satisfy it: the listener keeps its listening socket.)
C13_OneOpenSocket ==
  \A s \in Sessions :
    /\ Cardinality(OpenSockets(s)) <= 1
    /\ SessionClosed(s) => OpenSockets(s) = {}

\* C14: a task that stored its handle on the session and has ended, in whatever
\* way, has closed its socket and cleared the handle; whenever no task of the
\* session is alive, is_connected() is false.  (Stated as the claim states it; the
\* code does not satisfy it when connect_callback(None) raises.)
C14_CleanupAlways ==
  \A s \in Sessions :
    /\ \A t \in Tasks :
         (tpc[s][t] = "dead" /\ texit[s][t] \in {"stop", "oserror", "decode", "cb_raised"})
           => (sock[s][t] = "closed" /\ client[s] # t)
    /\ LiveTasks(s) = {} => ~is_connected(s)

\* task t of session s has not been started or is still establishing: no
\* connection has been made and no establishment error has been raised
BeforeEstablished(s, t) == tpc[s][t] \in {"unborn", "start", "accept_chk", "accept"}

\* C15: a task that finds the stop flag set before its connection is established
\* goes on to no callback: it stays in establishment or exits, and its callback
\* is invoked neither with success nor with an error; in both roles, also for a
\* connect made after an earlier disconnect.  (Stated as the claim states it; the
\* code does not satisfy it.)
C15_NoCallbackAfterStop ==
  [][\A s \in Sessions, t \in Tasks :
       (stop_event[s] /\ BeforeEstablished(s, t)) =>
         /\ BeforeEstablished(s, t)' \/ tpc'[s][t] = "dead"
         /\ cbLog'[s][t] = <<>>]_vars

\* the bytes of the frames of a sequence of values, in order
RECURSIVE Frames(_)
Frames(vs) == IF vs = <<>> THEN <<>> ELSE pack_data(Head(vs)) \o Frames(Tail(vs))

\* C16: the receive loop of B, fed by A's send(), reads whole frames.  What B has
\* pushed is a prefix of what A sent; at the top of the loop and before a header
\* read, the unread stream is exactly the frames of the values not yet pushed
\* (no byte dropped, the next header read starts at a frame's first byte); after
\* a header read, `length` is the payload length of the next value and the
\* stream starts with that payload; and as every header A writes matches its
\* payload, the loop never ends in a decode error, whatever timeouts and short
\* reads occur.  (Stated as the claim states it; the code does not satisfy it.)
C16_WholeFrames ==
  LET recvd == got["B"] \o data_queue["B"]
      pend == SubSeq(sent["A"], Len(recvd) + 1, Len(sent["A"]))
  IN /\ IsPrefix(recvd, sent["A"])
     /\ tpc["B"][1] \in {"loop", "recv_hdr"} => rx[1]["B"] = Frames(pend)
     /\ tpc["B"][1] = "recv_data" =>
          /\ pend # <<>>
          /\ tlen["B"][1] = Len(Dumps(Head(pend)))
          /\ rx[1]["B"] = Dumps(Head(pend)) \o Frames(Tail(pend))
     /\ texit["B"][1] # "decode"

\* C17: the handle of an established connection is closed exactly once, by the
\* receive-loop exit or by disconnect(), never by both: the close of the
\* receive-loop exit and the close of disconnect() each act on a handle that is
\* still open, never on one that has already been closed.  (Stated as the claim
\* states it; the code does not satisfy it.  That a handle is closed at least
\* once is the cleanup of C14.)
C17_ClosedOnce ==
  [][/\ \A s \in Sessions, t \in Tasks :
          (tpc[s][t] = "finally" /\ tpc'[s][t] = "dead") => sock[s][t] = "open"
     /\ \A s \in Sessions, c \in Consumers :
          (cpc[s][c] = "disc_close" /\ cpc'[s][c] = "disc_join")
            => sock[s][client[s]] = "open"]_vars

\* establishment of task t of session s has raised
EstablishmentFailed(s, t) ==
  \/ tpc[s][t] = "cb_err"
  \/ tpc[s][t] = "dead" /\ texit[s][t] = "failed"

\* C18: a task whose establishment raised invokes its callback once with the
\* error and terminates: it never enters the receive loop, never stores a handle
\* on the session and has no connection; no task starts but by a connect call
\* (no automatic retry, an ended task stays ended); and a connect call made when
\* the session's task has failed starts a fresh task, not started before, whose
\* callback log is its own.
C18_EstablishmentError ==
  /\ [](\A s \in Sessions, t \in Tasks :
          /\ EstablishmentFailed(s, t) => (client[s] # t /\ conn[s][t] = 0)
          /\ (tpc[s][t] = "dead" /\ texit[s][t] = "failed") => cbLog[s][t] = <<"err">>
          /\ tpc[s][t] = "cb_err" => cbLog[s][t] = <<>>)
  /\ [][\A s \in Sessions, t \in Tasks :
          /\ tpc[s][t] = "cb_err" =>
               /\ tpc'[s][t] \in {"cb_err", "dead"}
               /\ tpc'[s][t] = "dead" => (client'[s] = client[s] /\ texit'[s][t] = "failed")
          /\ tpc[s][t] = "dead" => tpc'[s][t] = "dead"
          /\ (tpc[s][t] = "unborn" /\ tpc'[s][t] # "unborn") =>
               /\ \E c \in Consumers : cpc[s][c] = "connect_start" /\ carg[s][c] = t
               /\ tpc'[s][t] = "start" /\ listen_thread'[s] = t /\ cbLog[s][t] = <<>>
          /\ (nconn'[s] # nconn[s] /\ listen_thread[s] = t /\ tpc[s][t] = "dead") =>
               \E c \in Consumers :
                 /\ cpc'[s][c] = "connect_start"
                 /\ tpc[s][carg'[s][c]] = "unborn"]_vars

\* the initiator's first connect reported an error and ended; its second connect
\* started a fresh task that established the connection and reported success
C18_Witness ==
  /\ tpc["B"][1] = "dead" /\ texit["B"][1] = "failed" /\ cbLog["B"][1] = <<"err">>
  /\ tpc["B"][2] = "recv_hdr" /\ cbLog["B"][2] = <<"ok">>
  /\ client["B"] = 2

\* C19: the Inbound Queue changes only by the receive loop appending one value
\* at its end and by recv() taking the value at its front and returning it; no
\* step of connect, disconnect, send, the loop's exit or the teardown changes it.
\* Hence the values received so far (returned by recv() or still queued) only
\* grow at the end: what was received before a disconnect or a failure is
\* returned by later recv() calls in receipt order.
C19_QueueOnlyRecv ==
  [][\A s \in Sessions :
       /\ data_queue'[s] # data_queue[s] =>
            \/ /\ \E t \in Tasks : tpc[s][t] = "recv_data" /\ tpc'[s][t] = "loop"
               /\ \E v \in Values : data_queue'[s] = Append(data_queue[s], v)
               /\ got'[s] = got[s]
            \/ /\ \E c \in Consumers : cpc[s][c] = "recv_get" /\ cpc'[s][c] = "idle"
               /\ data_queue[s] # <<>>
               /\ data_queue'[s] = Tail(data_queue[s])
               /\ got'[s] = Append(got[s], Head(data_queue[s]))
       /\ IsPrefix(got[s] \o data_queue[s], got'[s] \o data_queue'[s])]_vars

\* B received two values, disconnect() has returned and its task has torn the
\* handle down; recv() has returned the first value and the second is still queued
C19_Witness ==
  /\ stop_event["B"] /\ tpc["B"][1] = "dead" /\ texit["B"][1] \in {"stop", "oserror"}
  /\ ~is_connected("B") /\ cret["B"][1] = "returned"
  /\ Len(got["B"]) = 1 /\ Len(data_queue["B"]) = 1
  /\ got["B"] \o data_queue["B"] = sent["A"]

\* task t of session s is inside an iteration of the receive loop
InIteration(s, t) == tpc[s][t] \in {"recv_hdr", "recv_data"}

\* a disconnect() call on the session has ended and none is in progress
DisconnectEnded(s) ==
  /\ ndisc[s] > 0
  /\ \A c \in Consumers : cpc[s][c] \notin {"disc_close", "disc_join"}

\* C20: the stop flag, once set, stays set; once disconnect() has ended, no value
\* is added to the session's Inbound Queue and no task of the session enters an
\* iteration of the receive loop, whatever connect calls follow.
C20_StopIsFinal ==
  [][\A s \in Sessions :
       /\ stop_event[s] => stop_event'[s]
       /\ DisconnectEnded(s) =>
            /\ Len(data_queue'[s]) <= Len(data_queue[s])
            /\ \A t \in Tasks : InIteration(s, t)' => InIteration(s, t)]_vars

====
